---- MODULE Spec2Model ----
(***************************************************************************)
(* GeoLifeMap: the per-year snapshot cache (fetch_year_df), the backward   *)
(* availability search (find_latest_available_year), the cache completion  *)
(* (ensure_cache), the ranking and interpolation of snapshots              *)
(* (interpolate_df), the rank-movement detection of render_frame and the   *)
(* frame loop of main_race.                                                *)
(*                                                                         *)
(* A data frame is a sequence of rows (records); a life value is an        *)
(* integer.  An interpolation position t is held as the pair s/den, and a  *)
(* frame produced by interpolate_df holds life * den, so that              *)
(* life_0 + (life_1 - life_0) * t stays exact.                             *)
(***************************************************************************)
EXTENDS Integers, Sequences, FiniteSets, TLC

\* ---------------------------------------------------------------- bounds
\* Scaled-down values of the program's settings and of the world it runs in.
NumCodes == 2        \* len(some_country_codes)
MaxLife == 3         \* life values are 1..MaxLife
START_YEAR == 0
END_YEAR == 1
GmYear == 3          \* time.gmtime().tm_year
MAX_BACK == 2
steps == 2
TOP_N == 1
ALPHA == 1

some_country_codes == [i \in 1..NumCodes |-> i]
Codes == 1..NumCodes

\* CONTINENT_MAP.get(code, "Other"): the last code is in no continent of the map
CONTINENT_MAP(code) ==
    IF code = NumCodes THEN "Other" ELSE IF code % 2 = 1 THEN "Asia" ELSE "Europe"

\* The value the source holds for (year, code); whether a query yields it is
\* decided per query (FetchQuery).
SourceLife(year, code) == 1 + ((3 * code + 2 * year * code) % MaxLife)

\* An optional value (prev_df, year_dfs.get(y)): None, or Some(x)
None == <<>>
Some(x) == <<x>>

\* ------------------------------------------------------- data frame helpers
Row(code, life, continent) == [iso3 |-> code, life |-> life, continent |-> continent]

Ids(df) == {df[i].iso3 : i \in 1..Len(df)}

RowOf(df, code) == df[CHOOSE i \in 1..Len(df) : df[i].iso3 = code]

Permutations_(n) == {p \in [1..n -> 1..n] : \A i, j \in 1..n : i # j => p[i] # p[j]}

\* (mutant) ascending
sort_values_asc(df) ==
    {[i \in 1..Len(df) |-> df[p[i]]] : p \in
        {q \in Permutations_(Len(df)) :
            \A i, j \in 1..Len(df) : i < j => df[q[i]].life <= df[q[j]].life}}

\* df.sort_values("life", ascending=False): the default kind is quicksort, which
\* is not stable, so rows of equal life may come out in any order.
sort_values(df) ==
    {[i \in 1..Len(df) |-> df[p[i]]] : p \in
        {q \in Permutations_(Len(df)) :
            \A i, j \in 1..Len(df) : i < j => df[q[i]].life >= df[q[j]].life}}

\* reset_index(drop=True); df["rank"] = df.index + 1
with_rank(df) ==
    [i \in 1..Len(df) |->
        [iso3 |-> df[i].iso3, life |-> df[i].life,
         continent |-> df[i].continent, rank |-> i]]

SortedRanked(df) == {with_rank(d) : d \in sort_values(df)}

\* ------------------------------------------------------------ interpolate_df
\* A cell of a merged frame: NaN, or one known value.
NaN == <<>>
Known(v) == <<v>>
isna(x) == x = NaN

Cell(df, code, field) ==
    IF code \in Ids(df)
    THEN Known(IF field = "life" THEN RowOf(df, code).life ELSE RowOf(df, code).continent)
    ELSE NaN

\* x.fillna(other) and x.where(~x.isna(), other)
fillna(x, other) == IF isna(x) THEN other ELSE x

\* (mutant) how="inner"
merge_inner(df0, df1) ==
    LET keys == SelectSeq(some_country_codes, LAMBDA c : c \in Ids(df0) \cap Ids(df1))
    IN  [i \in 1..Len(keys) |->
            [iso3 |-> keys[i],
             life_0 |-> Cell(df0, keys[i], "life"),
             life_1 |-> Cell(df1, keys[i], "life"),
             continent |-> Cell(df0, keys[i], "continent")]]

\* a.merge(b, on="iso3", how="outer", suffixes=("_0", "_1")) with
\* a = df0[["iso3", "life", "continent"]] and b = df1[["iso3", "life"]]:
\* one row per key of either frame, the keys in lexicographic order.
merge_outer(df0, df1) ==
    LET keys == SelectSeq(some_country_codes, LAMBDA c : c \in Ids(df0) \cup Ids(df1))
    IN  [i \in 1..Len(keys) |->
            [iso3 |-> keys[i],
             life_0 |-> Cell(df0, keys[i], "life"),
             life_1 |-> Cell(df1, keys[i], "life"),
             continent |-> Cell(df0, keys[i], "continent")]]

\* (mutant) life_0 + life_1 * t
lerp_no_difference(life_0, life_1, num, den) ==
    IF isna(life_0) \/ isna(life_1) THEN NaN
    ELSE Known(life_0[1] * den + life_1[1] * num)

\* life_0 + (life_1 - life_0) * t for t = num / den, times den; NaN when a side is NaN
lerp(life_0, life_1, num, den) ==
    IF isna(life_0) \/ isna(life_1) THEN NaN
    ELSE Known(life_0[1] * den + (life_1[1] - life_0[1]) * num)

\* a cell of the merged frame in the unit of the result (times den)
scaled(x, den) == IF isna(x) THEN NaN ELSE Known(x[1] * den)

\* (mutant) the interpolation, else life_0
merged_life_of_0(m, num, den) ==
    fillna(lerp(m.life_0, m.life_1, num, den), scaled(m.life_0, den))

\* merged["life"]: the interpolation, else life_0, else life_1
merged_life(m, num, den) ==
    fillna(fillna(lerp(m.life_0, m.life_1, num, den), scaled(m.life_0, den)),
           scaled(m.life_1, den))

\* (mutant) no continent is kept
merged_continent_other(m) == "Other"

\* merged["continent"].fillna("Other")
merged_continent(m) == fillna(m.continent, Known("Other"))[1]

\* merged[["iso3", "life", "continent"]].dropna(subset=["life"])
merged_rows(df0, df1, num, den) ==
    LET merged == merge_outer(df0, df1)
        kept == SelectSeq(merged, LAMBDA m : ~isna(merged_life(m, num, den)))
    IN  [i \in 1..Len(kept) |->
            Row(kept[i].iso3, merged_life(kept[i], num, den)[1], merged_continent(kept[i]))]

\* interpolate_df(df0, df1, num / den): the frames the sort may produce
interpolate_df(df0, df1, num, den) == SortedRanked(merged_rows(df0, df1, num, den))

\* ------------------------------------------------------------ render_frame
\* The comparison with the previous frame: the rows of the top top_n of df_year
\* that are in df_prev with a rank at least alpha away.
Abs(n) == IF n < 0 THEN -n ELSE n

head(df, n) == SubSeq(df, 1, IF n < Len(df) THEN n ELSE Len(df))

\* (mutant) a rank more than alpha away
moved_of_strict(df_year, df_prev, alpha, top_n) ==
    LET df_bar == head(df_year, top_n)
    IN  IF df_prev = None \/ df_prev[1] = <<>> THEN {}
        ELSE {df_bar[i].iso3 : i \in
                {j \in 1..Len(df_bar) :
                    /\ df_bar[j].iso3 \in Ids(df_prev[1])
                    /\ Abs(RowOf(df_prev[1], df_bar[j].iso3).rank - df_bar[j].rank)
                          > alpha}}

moved_of(df_year, df_prev, alpha, top_n) ==
    LET df_bar == head(df_year, top_n)
    IN  IF df_prev = None \/ df_prev[1] = <<>> THEN {}
        ELSE {df_bar[i].iso3 : i \in
                {j \in 1..Len(df_bar) :
                    /\ df_bar[j].iso3 \in Ids(df_prev[1])
                    /\ Abs(RowOf(df_prev[1], df_bar[j].iso3).rank - df_bar[j].rank)
                          >= alpha}}

VARIABLES
    cache,          \* CACHE_DIR: year -> rows of life_<year>.csv (a partial function)
    pc,             \* control point of main_race
    fpc,            \* control point of fetch_year_df: "idle", "query", "ret"
    fyear,          \* fetch_year_df: year
    fidx,           \* fetch_year_df: index of the next code of some_country_codes
    rows,           \* fetch_year_df: rows
    df,             \* value returned by fetch_year_df
    update_cache,   \* main_race: update_cache
    candidate,      \* main_race: candidate
    y,              \* loop variable of the loop pc is in
    s,              \* main_race: s
    end,            \* main_race: end
    have,           \* ensure_cache: have
    year_dfs,       \* main_race: year_dfs (a partial function)
    frame_idx,      \* main_race: frame_idx
    prev_df,        \* main_race: prev_df
    probes,         \* history: <<year, non-empty>> of each probe of the resolver
    found,          \* history: the resolver returned from inside its loop
    lastGet,        \* history: the last finished fetch_year_df call
    pairGet,        \* history: the two last calls when they were for the same year
    emitted,        \* history: the last call of render_frame
    labels,         \* history: <<y, s>> of every frame of this run, in order
    aborted,        \* history: where the run before this one was ended
    ppc,            \* the functions on their own: how far they were applied
    raw0, raw1,     \* two snapshots as fetch_year_df returns them
    rk0, rk1,       \* the two snapshots sorted and ranked
    rr0,            \* rk0 sorted and ranked once more
    t_num,          \* t = t_num / steps
    res_t,          \* interpolate_df(rk0, rk1, t)
    res_prev,       \* the df_prev given to render_frame
    moved           \* render_frame: moved

vars == <<cache, pc, fpc, fyear, fidx, rows, df, update_cache, candidate, y, s, end,
          have, year_dfs, frame_idx, prev_df, probes, found, lastGet, pairGet,
          emitted, labels, aborted, ppc, raw0, raw1, rk0, rk1, rr0, t_num, res_t, res_prev, moved>>

mainVars == <<cache, pc, fpc, fyear, fidx, rows, df, update_cache, candidate, y, s, end,
              have, year_dfs, frame_idx, prev_df, probes, found, lastGet, pairGet,
              emitted, labels, aborted>>
pureVars == <<ppc, raw0, raw1, rk0, rk1, rr0, t_num, res_t, res_prev, moved>>

\* --------------------------------------------------------------- the cache
cached_years == DOMAIN cache

Max(S) == CHOOSE m \in S : \A n \in S : n <= m

\* dict.get(key): None when the key is missing
get(d, key) == IF key \in DOMAIN d THEN Some(d[key]) ELSE None

Put(d, key, value) == [k \in DOMAIN d \cup {key} |-> IF k = key THEN value ELSE d[k]]

NoGet == [year |-> 0, had |-> FALSE, fetched |-> FALSE, empty |-> TRUE, none |-> TRUE]

GetRecord(year, had, fetched, result) ==
    [year |-> year, had |-> had, fetched |-> fetched, empty |-> result = <<>>,
     none |-> FALSE]

\* the history of a call of fetch_year_df(year) that returns result
LogGet(year, had, fetched, result) ==
    LET g == GetRecord(year, had, fetched, result)
    IN  /\ lastGet' = g
        /\ pairGet' = IF ~lastGet.none /\ lastGet.year = year
                      THEN <<lastGet, g>> ELSE <<>>

\* where a run was ended: the run's pc and fpc, the year being fetched and
\* whether rows of it had been gathered
EndedAt(p, f, year, partial) == [pc |-> p, fpc |-> f, year |-> year, partial |-> partial]

NoRunBefore == EndedAt("start", "idle", 0, FALSE)

MainInit ==
    /\ cache = <<>>
    /\ pc = "start"
    /\ fpc = "idle"
    /\ fyear = 0
    /\ fidx = 0
    /\ rows = <<>>
    /\ df = <<>>
    /\ update_cache = FALSE
    /\ candidate = 0
    /\ y = 0
    /\ s = 0
    /\ end = 0
    /\ have = {}
    /\ year_dfs = <<>>
    /\ frame_idx = 0
    /\ prev_df = None
    /\ probes = <<>>
    /\ found = "pending"
    /\ lastGet = NoGet
    /\ pairGet = <<>>
    /\ emitted = None
    /\ labels = <<>>
    /\ aborted = NoRunBefore

PureIdle ==
    /\ ppc = "off"
    /\ raw0 = <<>>
    /\ raw1 = <<>>
    /\ rk0 = <<>>
    /\ rk1 = <<>>
    /\ rr0 = <<>>
    /\ t_num = 0
    /\ res_t = <<>>
    /\ res_prev = None
    /\ moved = {}

Init == MainInit /\ PureIdle

fetchVars == <<fpc, fyear, fidx, rows, df>>
histGet == <<lastGet, pairGet>>
frameVars == <<s, year_dfs, frame_idx, prev_df, emitted, labels>>

\* ----------------------------------------------------------- fetch_year_df
\* The caller's loop is at a call of fetch_year_df(y).
AtCall ==
    /\ fpc = "idle"
    /\ \/ pc \in {"resolve", "load"}
       \/ pc = "ensure" /\ y \notin have

\* (mutant) the cached file is never used
CacheHitNever(year) == FALSE

\* (mutant) a cached file is used only when it has a row of every code
CacheHitComplete(year) == year \in DOMAIN cache /\ Len(cache[year]) = NumCodes

\* lines 102-107: the cached file exists and is not empty: it is returned
CacheHit(year) == year \in DOMAIN cache /\ cache[year] # <<>>

FetchEnter ==
    /\ AtCall
    /\ IF CacheHit(y)
       THEN /\ df' = cache[y]
            /\ fpc' = "ret"
            /\ LogGet(y, y \in DOMAIN cache, FALSE, cache[y])
            /\ UNCHANGED <<fyear, fidx, rows>>
       ELSE /\ fpc' = "query"
            /\ fyear' = y
            /\ fidx' = 1
            /\ rows' = <<>>
            /\ UNCHANGED <<df, histGet>>
    /\ UNCHANGED <<pureVars, cache, pc, update_cache, candidate, y, end, have, probes, found,
                   aborted, frameVars>>

\* (mutant) every row is written to the cached file as soon as it is there
FetchQueryWritesRow ==
    /\ fpc = "query"
    /\ fidx <= NumCodes
    /\ \E ok \in BOOLEAN :
        rows' = IF ok
                THEN Append(rows, Row(some_country_codes[fidx],
                                      SourceLife(fyear, some_country_codes[fidx]),
                                      CONTINENT_MAP(some_country_codes[fidx])))
                ELSE rows
    /\ cache' = IF rows' = <<>> THEN cache ELSE Put(cache, fyear, rows')
    /\ fidx' = fidx + 1
    /\ UNCHANGED <<pureVars, pc, fpc, fyear, df, update_cache, candidate, y, end, have,
                   probes, found, histGet, aborted, frameVars>>

\* lines 110-138, one code: the query fails or yields nothing usable (the three
\* continue), or yields a value
FetchQuery ==
    /\ fpc = "query"
    /\ fidx <= NumCodes
    /\ \E ok \in BOOLEAN :
        rows' = IF ok
                THEN Append(rows, Row(some_country_codes[fidx],
                                      SourceLife(fyear, some_country_codes[fidx]),
                                      CONTINENT_MAP(some_country_codes[fidx])))
                ELSE rows
    /\ fidx' = fidx + 1
    /\ UNCHANGED <<pureVars, cache, pc, fpc, fyear, df, update_cache, candidate, y, end, have,
                   probes, found, histGet, aborted, frameVars>>

\* lines 123-136, one code: the response has not the expected shape (js is no
\* dict, an element of value is no dict, NumericValue is no number): the
\* exception is not caught and ends the run
FetchRaise ==
    /\ fpc = "query"
    /\ fidx <= NumCodes
    /\ pc' = "raised"
    /\ fpc' = "idle"
    /\ UNCHANGED <<pureVars, cache, fyear, fidx, rows, df, update_cache, candidate, y, end, have,
                   probes, found, histGet, aborted, frameVars>>

\* (mutant) every frame is saved, the empty one too
SaveCsvAlways(year, frame) == Put(cache, year, frame)

\* lines 140-148: an empty frame is returned and not saved; any other is saved
SaveCsv(year, frame) == IF frame = <<>> THEN cache ELSE Put(cache, year, frame)

FetchFinish ==
    /\ fpc = "query"
    /\ fidx > NumCodes
    /\ cache' = SaveCsv(fyear, rows)
    /\ df' = rows
    /\ fpc' = "ret"
    /\ LogGet(fyear, fyear \in DOMAIN cache, TRUE, rows)
    /\ UNCHANGED <<pureVars, pc, fyear, fidx, rows, update_cache, candidate, y, end, have,
                   probes, found, aborted, frameVars>>

\* ---------------------------------------------------------------- main_race
\* Where main_race goes when a loop ends or is empty: <<pc, y>>.
EnterLast(e) == <<"last", e>>
\* (mutant) for y in range(start + 1, end)
EnterPairsAfterFirst(e) ==
    IF START_YEAR + 1 < e THEN <<"pairs", START_YEAR + 1>> ELSE EnterLast(e)

\* line 600: for y in range(start, end)
EnterPairs(e) == IF START_YEAR < e THEN <<"pairs", START_YEAR>> ELSE EnterLast(e)
\* line 589: for year in range(start, end + 1)
EnterLoad(e) == IF START_YEAR <= e THEN <<"load", START_YEAR>> ELSE EnterPairs(e)
\* line 31: for y in range(start_year, end_year + 1)
EnterEnsure(e) == IF START_YEAR <= e THEN <<"ensure", START_YEAR>> ELSE EnterLoad(e)

Goto(target) == pc' = target[1] /\ y' = target[2]

\* lines 572-577: update_cache: the candidate year, and the resolver starts
\* (its range is not empty: MAX_BACK > 0)
StartUpdate ==
    /\ pc = "start"
    /\ update_cache' = TRUE
    /\ candidate' = LET c == IF cached_years # {} THEN Max(cached_years) ELSE END_YEAR
                    IN  IF c >= GmYear - 1 THEN c ELSE GmYear - 1
    /\ pc' = "resolve"
    /\ y' = candidate'
    /\ aborted' = NoRunBefore
    /\ UNCHANGED <<pureVars, cache, fetchVars, end, have, probes, found, histGet, frameVars>>

\* lines 582-585: the cached years only
StartCached ==
    /\ pc = "start"
    /\ cached_years # {}
    /\ update_cache' = FALSE
    /\ end' = Max(cached_years)
    /\ Goto(EnterLoad(end'))
    /\ aborted' = NoRunBefore
    /\ UNCHANGED <<pureVars, cache, fetchVars, candidate, have, probes, found, histGet, frameVars>>

\* lines 583-584: no cached year: RuntimeError
StartNoCache ==
    /\ pc = "start"
    /\ cached_years = {}
    /\ update_cache' = FALSE
    /\ pc' = "raised"
    /\ aborted' = NoRunBefore
    /\ UNCHANGED <<pureVars, cache, fetchVars, candidate, y, end, have, probes, found, histGet,
                   frameVars>>

\* (mutant) the first probed year is taken, whatever it holds
AvailableAny(frame) == TRUE

\* line 25: df is not None and not df.empty
Available(frame) == frame # <<>>

\* (mutant) the loop goes down without an end
MoreToProbeAlways(c, year) == TRUE

\* line 23: range(candidate, candidate - max_back, -1) has a year after year
MoreToProbe(c, year) == year - 1 > c - MAX_BACK

\* (mutant) the last probed year is returned
FloorLastProbed(c) == c - MAX_BACK + 1

\* line 27: return candidate - max_back
Floor(c) == c - MAX_BACK

\* find_latest_available_year, lines 23-27, after fetch_year_df(y) returned
ResolveStep ==
    /\ pc = "resolve"
    /\ fpc = "ret"
    /\ fpc' = "idle"
    /\ probes' = Append(probes, <<y, df # <<>>>>)
    /\ IF Available(df)
       THEN /\ found' = "found"
            /\ end' = y
            /\ have' = cached_years
            /\ Goto(EnterEnsure(y))
       ELSE IF MoreToProbe(candidate, y)
       THEN /\ y' = y - 1
            /\ UNCHANGED <<pc, found, end, have>>
       ELSE /\ found' = "floor"
            /\ end' = Floor(candidate)
            /\ have' = cached_years
            /\ Goto(EnterEnsure(Floor(candidate)))
    /\ UNCHANGED <<pureVars, cache, fyear, fidx, rows, df, update_cache, candidate, histGet, aborted,
                   frameVars>>

\* the next year of a loop over range(start, end + 1), or the loop's exit
NextYear(after) == IF y + 1 <= end THEN Goto(<<pc, y + 1>>) ELSE Goto(after)

\* ensure_cache, lines 32-33: the year is cached
EnsureSkip ==
    /\ pc = "ensure"
    /\ fpc = "idle"
    /\ y \in have
    /\ NextYear(EnterLoad(end))
    /\ UNCHANGED <<pureVars, cache, fetchVars, update_cache, candidate, end, have, probes, found,
                   histGet, aborted, frameVars>>

\* ensure_cache, lines 35-41, after fetch_year_df(y) returned
EnsureStep ==
    /\ pc = "ensure"
    /\ fpc = "ret"
    /\ fpc' = "idle"
    /\ NextYear(EnterLoad(end))
    /\ UNCHANGED <<pureVars, cache, fyear, fidx, rows, df, update_cache, candidate, end, have,
                   probes, found, histGet, aborted, frameVars>>

\* (mutant) the empty frame of a year is kept too
LoadStepKeepsEmpty ==
    /\ pc = "load"
    /\ fpc = "ret"
    /\ fpc' = "idle"
    /\ \E d \in SortedRanked(df) : year_dfs' = Put(year_dfs, y, d)
    /\ NextYear(EnterPairs(end))
    /\ UNCHANGED <<pureVars, cache, fyear, fidx, rows, df, update_cache, candidate, end, have,
                   probes, found, histGet, aborted, s, frame_idx, prev_df, emitted, labels>>

\* main_race, lines 590-595, after fetch_year_df(year) returned
LoadStep ==
    /\ pc = "load"
    /\ fpc = "ret"
    /\ fpc' = "idle"
    /\ IF df = <<>>
       THEN year_dfs' = year_dfs
       ELSE \E d \in SortedRanked(df) : year_dfs' = Put(year_dfs, y, d)
    /\ NextYear(EnterPairs(end))
    /\ UNCHANGED <<pureVars, cache, fyear, fidx, rows, df, update_cache, candidate, end, have,
                   probes, found, histGet, aborted, s, frame_idx, prev_df, emitted, labels>>

\* render_frame(df_year, df_prev, label, ...): the call as the history keeps it
Rendered(df_year, df_prev, label, idx) ==
    [df_year |-> df_year, df_prev |-> df_prev, label |-> label, idx |-> idx]

\* the label of the real frame of a year
Real == steps

\* (mutant) a skipped pair takes a frame index
PairSkipCounts ==
    /\ pc = "pairs"
    /\ get(year_dfs, y) = None \/ get(year_dfs, y + 1) = None
    /\ IF y + 1 < end THEN Goto(<<"pairs", y + 1>>) ELSE Goto(EnterLast(end))
    /\ frame_idx' = frame_idx + 1
    /\ UNCHANGED <<pureVars, cache, fetchVars, update_cache, candidate, end, have, probes, found,
                   histGet, aborted, s, year_dfs, prev_df, emitted, labels>>

\* (mutant) of a pair without its second year the first year's frame is rendered
PairSkipShowsYear ==
    /\ pc = "pairs"
    /\ get(year_dfs, y) = None \/ get(year_dfs, y + 1) = None
    /\ IF get(year_dfs, y) # None
       THEN /\ emitted' = Some(Rendered(year_dfs[y], prev_df, <<y, 0>>, frame_idx))
            /\ labels' = Append(labels, <<y, 0>>)
            /\ prev_df' = Some(year_dfs[y])
            /\ frame_idx' = frame_idx + 1
       ELSE UNCHANGED <<emitted, labels, prev_df, frame_idx>>
    /\ IF y + 1 < end THEN Goto(<<"pairs", y + 1>>) ELSE Goto(EnterLast(end))
    /\ UNCHANGED <<pureVars, cache, fetchVars, update_cache, candidate, end, have, probes, found,
                   histGet, aborted, s, year_dfs>>

\* main_race, lines 601-604: a year of the pair is missing
PairSkip ==
    /\ pc = "pairs"
    /\ get(year_dfs, y) = None \/ get(year_dfs, y + 1) = None
    /\ IF y + 1 < end THEN Goto(<<"pairs", y + 1>>) ELSE Goto(EnterLast(end))
    /\ UNCHANGED <<pureVars, cache, fetchVars, update_cache, candidate, end, have, probes, found,
                   histGet, aborted, frameVars>>

\* (mutant) prev_df is not advanced
EmitStepKeepPrev(df_t) ==
    /\ emitted' = Some(Rendered(df_t, prev_df, <<y, s>>, frame_idx))
    /\ labels' = Append(labels, <<y, s>>)
    /\ prev_df' = prev_df
    /\ frame_idx' = frame_idx + 1

\* (mutant) the frame index is not advanced
EmitStepSameIndex(df_t) ==
    /\ emitted' = Some(Rendered(df_t, prev_df, <<y, s>>, frame_idx))
    /\ labels' = Append(labels, <<y, s>>)
    /\ prev_df' = Some(df_t)
    /\ frame_idx' = frame_idx

\* (mutant) prev_df becomes the real frame of the pair's first year
EmitStepPrevIsYear(df_t) ==
    /\ emitted' = Some(Rendered(df_t, prev_df, <<y, s>>, frame_idx))
    /\ labels' = Append(labels, <<y, s>>)
    /\ prev_df' = Some(year_dfs[y])
    /\ frame_idx' = frame_idx + 1

\* main_race, lines 606-614: one step of the pair's frames
EmitStep(df_t) ==
    /\ emitted' = Some(Rendered(df_t, prev_df, <<y, s>>, frame_idx))
    /\ labels' = Append(labels, <<y, s>>)
    /\ prev_df' = Some(df_t)
    /\ frame_idx' = frame_idx + 1

\* (mutant) every interpolated frame is saved as the cached file of its year
PairFrameSaved ==
    /\ pc = "pairs"
    /\ get(year_dfs, y) # None /\ get(year_dfs, y + 1) # None
    /\ \E df_t \in interpolate_df(year_dfs[y], year_dfs[y + 1], s, steps) :
        /\ EmitStep(df_t)
        /\ cache' = Put(cache, y, df_t)
    /\ IF s + 1 < steps
       THEN s' = s + 1 /\ UNCHANGED <<pc, y>>
       ELSE /\ s' = 0
            /\ IF y + 1 < end THEN Goto(<<"pairs", y + 1>>) ELSE Goto(EnterLast(end))
    /\ UNCHANGED <<pureVars, fetchVars, update_cache, candidate, end, have, probes, found,
                   histGet, aborted, year_dfs>>

PairFrame ==
    /\ pc = "pairs"
    /\ get(year_dfs, y) # None /\ get(year_dfs, y + 1) # None
    /\ \E df_t \in interpolate_df(year_dfs[y], year_dfs[y + 1], s, steps) : EmitStep(df_t)
    /\ IF s + 1 < steps
       THEN s' = s + 1 /\ UNCHANGED <<pc, y>>
       ELSE /\ s' = 0
            /\ IF y + 1 < end THEN Goto(<<"pairs", y + 1>>) ELSE Goto(EnterLast(end))
    /\ UNCHANGED <<pureVars, cache, fetchVars, update_cache, candidate, end, have, probes, found,
                   histGet, aborted, year_dfs>>

\* (mutant) the last year's frame becomes the previous frame
LastFrameSetsPrev ==
    /\ pc = "last"
    /\ get(year_dfs, end) # None
    /\ emitted' = Some(Rendered(year_dfs[end], prev_df, <<end, Real>>, frame_idx))
    /\ labels' = Append(labels, <<end, Real>>)
    /\ prev_df' = Some(year_dfs[end])
    /\ pc' = "done"
    /\ UNCHANGED <<pureVars, cache, fetchVars, update_cache, candidate, y, end, have, probes,
                   found, histGet, aborted, s, year_dfs, frame_idx>>

\* (mutant) the last year gets no frame
LastFrameDropped ==
    /\ pc = "last"
    /\ get(year_dfs, end) # None
    /\ pc' = "done"
    /\ UNCHANGED <<pureVars, cache, fetchVars, update_cache, candidate, y, end, have, probes,
                   found, histGet, aborted, frameVars>>

\* (mutant) the last frame is the one of the first year
LastFrameOfStart ==
    /\ pc = "last"
    /\ get(year_dfs, START_YEAR) # None
    /\ emitted' = Some(Rendered(year_dfs[START_YEAR], prev_df, <<START_YEAR, Real>>, frame_idx))
    /\ labels' = Append(labels, <<START_YEAR, Real>>)
    /\ pc' = "done"
    /\ UNCHANGED <<pureVars, cache, fetchVars, update_cache, candidate, y, end, have, probes,
                   found, histGet, aborted, s, year_dfs, frame_idx, prev_df>>

\* main_race, lines 617-620: the last year's frame
LastFrame ==
    /\ pc = "last"
    /\ get(year_dfs, end) # None
    /\ emitted' = Some(Rendered(year_dfs[end], prev_df, <<end, Real>>, frame_idx))
    /\ labels' = Append(labels, <<end, Real>>)
    /\ pc' = "done"
    /\ UNCHANGED <<pureVars, cache, fetchVars, update_cache, candidate, y, end, have, probes,
                   found, histGet, aborted, s, year_dfs, frame_idx, prev_df>>

LastSkip ==
    /\ pc = "last"
    /\ get(year_dfs, end) = None
    /\ pc' = "done"
    /\ UNCHANGED <<pureVars, cache, fetchVars, update_cache, candidate, y, end, have, probes,
                   found, histGet, aborted, frameVars>>

\* The run ends (it returned, it raised, or it is interrupted where it is) and
\* the program is started again: only the cache directory is kept.
NewRun ==
    /\ pc # "start"
    /\ pc' = "start"
    /\ fpc' = "idle"
    /\ fyear' = 0
    /\ fidx' = 0
    /\ rows' = <<>>
    /\ df' = <<>>
    /\ update_cache' = FALSE
    /\ candidate' = 0
    /\ y' = 0
    /\ s' = 0
    /\ end' = 0
    /\ have' = {}
    /\ year_dfs' = <<>>
    /\ frame_idx' = 0
    /\ prev_df' = None
    /\ probes' = <<>>
    /\ found' = "pending"
    /\ emitted' = None
    /\ labels' = <<>>
    /\ aborted' = EndedAt(pc, fpc, fyear, rows # <<>>)
    /\ UNCHANGED <<pureVars, cache, histGet>>

Next ==
    \/ StartUpdate
    \/ StartCached
    \/ StartNoCache
    \/ FetchEnter
    \/ FetchQuery
    \/ FetchRaise
    \/ FetchFinish
    \/ ResolveStep
    \/ EnsureSkip
    \/ EnsureStep
    \/ LoadStep
    \/ PairSkip
    \/ PairFrame
    \/ LastFrame
    \/ LastSkip
    \/ NewRun

Spec == Init /\ [][Next]_vars

\* The statements of find_latest_available_year and of the fetch_year_df it
\* calls: a running program goes on to execute them (requests.get has a
\* timeout, line 120, so every query returns or raises).
ResolverSteps ==
    /\ pc = "resolve"
    /\ FetchEnter \/ FetchQuery \/ FetchFinish \/ ResolveStep

LiveSpec == Init /\ [][Next]_vars /\ WF_vars(ResolverSteps)

\* ------------------------------------------- the functions on their own
\* The snapshots fetch_year_df can return: rows in the order of
\* some_country_codes, for any codes and any life values.
Snapshots ==
    {SelectSeq([c \in Codes |-> Row(c, f[c], CONTINENT_MAP(c))], LAMBDA r : r.life > 0) :
        f \in [Codes -> 0..MaxLife]} \ {<<>>}

PureInit ==
    /\ MainInit
    /\ ppc = "raw"
    /\ raw0 \in Snapshots
    /\ raw1 \in Snapshots
    /\ rk0 = <<>>
    /\ rk1 = <<>>
    /\ rr0 = <<>>
    /\ t_num = 0
    /\ res_t = <<>>
    /\ res_prev = None
    /\ moved = {}

\* main_race, lines 593-594, for both snapshots
RankBoth ==
    /\ ppc = "raw"
    /\ rk0' \in SortedRanked(raw0)
    /\ rk1' \in SortedRanked(raw1)
    /\ ppc' = "ranked"
    /\ UNCHANGED <<mainVars, raw0, raw1, rr0, t_num, res_t, res_prev, moved>>

\* interpolate_df(rk0, rk1, t) for a t of 0/steps .. steps/steps
Interpolate ==
    /\ ppc = "ranked"
    /\ \E n \in 0..steps :
        /\ t_num' = n
        /\ res_t' \in interpolate_df(rk0, rk1, n, steps)
    /\ ppc' = "interpolated"
    /\ UNCHANGED <<mainVars, raw0, raw1, rk0, rk1, rr0, res_prev, moved>>

\* render_frame(res_t, res_prev, ...) after no frame, or after a frame of rk0 or rk1
Render ==
    /\ ppc = "interpolated"
    /\ res_prev' \in {None, Some(rk0), Some(rk1)}
    /\ moved' = moved_of(res_t, res_prev', ALPHA, TOP_N)
    /\ ppc' = "rendered"
    /\ UNCHANGED <<mainVars, raw0, raw1, rk0, rk1, rr0, t_num, res_t>>

\* lines 593-594 applied to a frame they have ranked already
Rerank ==
    /\ ppc = "ranked"
    /\ rr0' \in SortedRanked(rk0)
    /\ ppc' = "reranked"
    /\ UNCHANGED <<mainVars, raw0, raw1, rk0, rk1, t_num, res_t, res_prev, moved>>

PureNext ==
    \/ RankBoth
    \/ Rerank
    \/ Interpolate
    \/ Render

PureSpec == PureInit /\ [][PureNext]_vars

\* ------------------------------- a cached file with a code in two rows
\* fetch_year_df returns a cached file as read_csv reads it (lines 102-107),
\* unchecked: a file that was not written by line 147, or was edited, can hold
\* two rows of one code.  The frames with one row too many:
DuplicatedSnapshots ==
    UNION {{SubSeq(sn, 1, i) \o <<Row(sn[i].iso3, v, sn[i].continent)>>
                \o SubSeq(sn, i + 1, Len(sn)) :
            i \in 1..Len(sn), v \in 1..MaxLife} : sn \in Snapshots}

DupInit ==
    /\ MainInit
    /\ ppc = "raw"
    /\ raw0 \in DuplicatedSnapshots
    /\ raw1 \in Snapshots
    /\ rk0 = <<>>
    /\ rk1 = <<>>
    /\ rr0 = <<>>
    /\ t_num = 0
    /\ res_t = <<>>
    /\ res_prev = None
    /\ moved = {}

\* main_race, lines 617-620: render_frame of a ranked real frame, the first
\* frame of the run
RenderReal ==
    /\ ppc = "ranked"
    /\ res_t' = rk0
    /\ res_prev' = None
    /\ moved' = moved_of(rk0, None, ALPHA, TOP_N)
    /\ ppc' = "rendered"
    /\ UNCHANGED <<mainVars, raw0, raw1, rk0, rk1, rr0, t_num>>

DupNext ==
    \/ RankBoth
    \/ RenderReal

DupSpec == DupInit /\ [][DupNext]_vars

\* ------------------------------------------------------------------ claims

\* C1: every persisted cache entry is non-empty: an empty fetch result is never
\* written to the cache, whatever succeeded or failed before.
C1_NoEmptyEntry == \A year \in DOMAIN cache : cache[year] # <<>>

\* a fetch returned an empty frame, which is not in the cache, beside a year that is
C1_Witness ==
    /\ lastGet.fetched /\ lastGet.empty
    /\ lastGet.year \notin DOMAIN cache
    /\ DOMAIN cache # {}

\* C2: a call of fetch_year_df(year) queries the source if and only if no entry
\* was persisted for the year when it was called; of two consecutive calls for
\* one year the second queries nothing when the first fetched a non-empty
\* frame, and queries again when the first fetched an empty one.
C2_ReadThrough ==
    /\ ~lastGet.none => (lastGet.fetched <=> ~lastGet.had)
    /\ pairGet # <<>> =>
        /\ (pairGet[1].fetched /\ ~pairGet[1].empty) => ~pairGet[2].fetched
        /\ (pairGet[1].fetched /\ pairGet[1].empty) => pairGet[2].fetched

\* two consecutive calls for one year: a fetch of a non-empty frame, then a hit
C2_Witness ==
    /\ pairGet # <<>>
    /\ pairGet[1].fetched /\ ~pairGet[1].empty
    /\ pairGet[2].had /\ ~pairGet[2].fetched

\* two consecutive calls for one year that both fetched an empty frame
C2_WitnessEmptyTwice ==
    /\ pairGet # <<>>
    /\ pairGet[1].fetched /\ pairGet[1].empty
    /\ pairGet[2].fetched /\ pairGet[2].empty

\* C3: the resolver probes candidate, candidate - 1, ... in that order and
\* returns the first probed year whose frame is not empty: every probe before
\* the returned one was empty, the returned year is persisted and no year after
\* it up to candidate is.
C3_FirstAvailable ==
    /\ \A i \in 1..Len(probes) : probes[i][1] = candidate - (i - 1)
    /\ \A i \in 1..Len(probes) : probes[i][2] => (i = Len(probes) /\ found = "found")
    /\ found = "found" =>
        /\ probes # <<>>
        /\ probes[Len(probes)] = <<end, TRUE>>
        /\ end \in DOMAIN cache
        /\ \A year \in (end + 1)..candidate : year \notin DOMAIN cache

\* the resolver found data at the last year of its window, after empty probes
C3_Witness ==
    /\ found = "found"
    /\ Len(probes) = MAX_BACK
    /\ Len(probes) > 1

\* C4: when no probed year of the window has a non-empty frame, the resolver
\* returns candidate - MAX_BACK as a value; that year was not probed.
C4_Floor ==
    /\ (Len(probes) = MAX_BACK /\ \A i \in 1..Len(probes) : ~probes[i][2]) =>
        (found = "floor" /\ end = candidate - MAX_BACK)
    /\ found = "floor" =>
        /\ end = candidate - MAX_BACK
        /\ Len(probes) = MAX_BACK
        /\ \A i \in 1..Len(probes) : ~probes[i][2] /\ probes[i][1] > end

\* the floor year was returned and its own frame, fetched afterwards, is empty
C4_Witness ==
    /\ found = "floor"
    /\ pc = "done"
    /\ lastGet.year = end /\ lastGet.fetched /\ lastGet.empty
    /\ end \notin DOMAIN cache

\* the ranks of frame are 1..n, each once, n the number of its rows, every
\* identity once, and a smaller rank never has a smaller life
DenseDescending(frame, ids) ==
    /\ Ids(frame) = ids
    /\ Len(frame) = Cardinality(ids)
    /\ {frame[i].rank : i \in 1..Len(frame)} = 1..Cardinality(ids)
    /\ \A i, j \in 1..Len(frame) :
        frame[i].rank < frame[j].rank => frame[i].life >= frame[j].life

\* C5: in every ranked snapshot, real or interpolated for any A, B and t, the
\* ranks are a dense permutation of 1..N, N the number of identities with a
\* value, and are ordered by descending value.
C5_DenseRanks ==
    /\ ppc # "raw" =>
        /\ DenseDescending(rk0, Ids(raw0))
        /\ DenseDescending(rk1, Ids(raw1))
    /\ ppc \in {"interpolated", "rendered"} =>
        DenseDescending(res_t, Ids(raw0) \cup Ids(raw1))

\* an interpolated frame in which two identities of the first snapshot have
\* changed places
C5_Witness ==
    /\ ppc = "interpolated"
    /\ \E i, j \in 1..Len(res_t) :
        /\ res_t[i].rank < res_t[j].rank
        /\ res_t[i].life > res_t[j].life
        /\ res_t[i].iso3 \in Ids(rk0) /\ res_t[j].iso3 \in Ids(rk0)
        /\ RowOf(rk0, res_t[i].iso3).rank > RowOf(rk0, res_t[j].iso3).rank

\* C6: an identity of both A and B gets life_A + (life_B - life_A) * t, not
\* clamped and not rounded: A's life at t = 0 and B's at t = 1.  (The lives of
\* res_t are held times steps.)
C6_Linear ==
    ppc \in {"interpolated", "rendered"} =>
        \A c \in Ids(raw0) \cap Ids(raw1) :
            /\ c \in Ids(res_t)
            /\ RowOf(res_t, c).life =
                 RowOf(raw0, c).life * steps
                   + (RowOf(raw1, c).life - RowOf(raw0, c).life) * t_num
            /\ t_num = 0 => RowOf(res_t, c).life = RowOf(raw0, c).life * steps
            /\ t_num = steps => RowOf(res_t, c).life = RowOf(raw1, c).life * steps

\* a common identity with two different lives, strictly between the end points
C6_Witness ==
    /\ ppc = "interpolated"
    /\ 0 < t_num /\ t_num < steps
    /\ \E c \in Ids(raw0) \cap Ids(raw1) :
        /\ RowOf(raw0, c).life > RowOf(raw1, c).life
        /\ RowOf(res_t, c).life < RowOf(raw0, c).life * steps
        /\ RowOf(res_t, c).life > RowOf(raw1, c).life * steps

\* C7: the identities of interpolate(A, B, t) are those of A or of B; an
\* identity of only one of them keeps that life for every t; an identity of
\* neither is not in the result.
C7_Union ==
    ppc \in {"interpolated", "rendered"} =>
        /\ Ids(res_t) = Ids(raw0) \cup Ids(raw1)
        /\ \A c \in Ids(raw0) \ Ids(raw1) :
            c \in Ids(res_t) /\ RowOf(res_t, c).life = RowOf(raw0, c).life * steps
        /\ \A c \in Ids(raw1) \ Ids(raw0) :
            c \in Ids(res_t) /\ RowOf(res_t, c).life = RowOf(raw1, c).life * steps
        /\ \A c \in Codes \ (Ids(raw0) \cup Ids(raw1)) : c \notin Ids(res_t)

\* an identity of A only and an identity of B only, at a t inside the interval
C7_Witness ==
    /\ ppc = "interpolated"
    /\ 0 < t_num /\ t_num < steps
    /\ Ids(raw0) \ Ids(raw1) # {}
    /\ Ids(raw1) \ Ids(raw0) # {}

\* C8 as stated: the category is A's for an identity of A, else B's for an
\* identity of B, else the default.
C8_CategoryAElseB ==
    ppc \in {"interpolated", "rendered"} =>
        \A i \in 1..Len(res_t) :
            res_t[i].continent =
                IF res_t[i].iso3 \in Ids(raw0) THEN RowOf(raw0, res_t[i].iso3).continent
                ELSE IF res_t[i].iso3 \in Ids(raw1)
                THEN RowOf(raw1, res_t[i].iso3).continent
                ELSE "Other"

\* C8 amended: the category is A's for an identity of A and the default "Other"
\* for every other identity, those of B included; it does not depend on t.
C8_CategoryAElseOther ==
    ppc \in {"interpolated", "rendered"} =>
        \A i \in 1..Len(res_t) :
            res_t[i].continent =
                IF res_t[i].iso3 \in Ids(raw0) THEN RowOf(raw0, res_t[i].iso3).continent
                ELSE "Other"

\* an identity of B only that has a continent in B and "Other" in the result,
\* beside an identity of A
C8_Witness ==
    /\ ppc = "interpolated"
    /\ \E i \in 1..Len(res_t) : res_t[i].iso3 \in Ids(raw0)
    /\ \E i \in 1..Len(res_t) :
        /\ res_t[i].iso3 \notin Ids(raw0)
        /\ RowOf(raw1, res_t[i].iso3).continent # "Other"
        /\ res_t[i].continent = "Other"

\* the rank of code in a ranked frame that holds it
RankIn(frame, code) == RowOf(frame, code).rank

C9_WitnessNew ==
    /\ ppc = "rendered"
    /\ res_prev # None
    /\ \E c \in Ids(res_t) \ Ids(res_prev[1]) : RankIn(res_t, c) <= TOP_N /\ c \notin moved

\* the labels of the interpolated frames of the pair (year, year + 1), in order
PairLabels(year) == SelectSeq(labels, LAMBDA l : l[1] = year /\ l[2] # Real)

\* how many frames the pair (year, year + 1) has got so far
StepsDone(year) ==
    IF pc \in {"last", "done"} \/ (pc = "pairs" /\ y > year) THEN steps
    ELSE IF pc = "pairs" /\ y = year THEN s
    ELSE 0

\* C10: a pair (year, year + 1) of two real ranked snapshots gets exactly
\* steps frames, in the order s = 0 .. steps - 1, the s-th being
\* interpolate_df(snapshot_year, snapshot_year+1, s / steps), and after each
\* of them prev_df is the frame just emitted.
C10_PairFrames ==
    /\ \A year \in START_YEAR..(end - 1) :
        (pc \in {"pairs", "last", "done"}
            /\ year \in DOMAIN year_dfs /\ (year + 1) \in DOMAIN year_dfs) =>
                PairLabels(year) = [i \in 1..StepsDone(year) |-> <<year, i - 1>>]
    /\ (emitted # None /\ emitted[1].label[2] # Real) =>
        LET e == emitted[1] IN
        /\ e.label[1] \in DOMAIN year_dfs /\ (e.label[1] + 1) \in DOMAIN year_dfs
        /\ e.df_year \in interpolate_df(year_dfs[e.label[1]], year_dfs[e.label[1] + 1],
                                        e.label[2], steps)
        /\ e.label = labels[Len(labels)]
        /\ prev_df = Some(e.df_year)

\* the run ended with all the frames of two pairs
C10_Witness ==
    /\ pc = "done"
    /\ Len(PairLabels(START_YEAR)) = steps
    /\ Len(PairLabels(START_YEAR + 1)) = steps
    /\ steps > 1

\* C11 as stated: after the frame of the last step of a pair (year, year + 1)
\* the next frame is the real snapshot of year + 1, before any frame of the
\* following pair, and prev_df is set to that real snapshot.
C11_RealAfterEveryPair ==
    \A i \in 1..Len(labels) :
        (labels[i][2] = steps - 1 /\ (i < Len(labels) \/ pc \in {"last", "done"})) =>
            /\ pc = "last" => i < Len(labels)
            /\ i < Len(labels) => labels[i + 1] = <<labels[i][1] + 1, Real>>
            /\ (pc = "done" /\ i + 1 = Len(labels)) => prev_df = Some(emitted[1].df_year)

\* C11 amended: a real snapshot is a frame only once, for the year end, as the
\* last frame of the run, right after the last step of the pair (end - 1, end)
\* when that pair has both snapshots; after the last step of any other pair
\* the next frame is the step 0 of a following pair; prev_df is never set to a
\* real snapshot: it stays the last interpolated frame.
C11_RealOnlyAtEnd ==
    /\ \A i \in 1..Len(labels) :
        /\ labels[i][2] = Real =>
            /\ i = Len(labels) /\ labels[i][1] = end /\ pc = "done"
            /\ emitted[1].df_year = year_dfs[end]
            /\ emitted[1].df_prev = prev_df
            /\ i > 1 => /\ labels[i - 1][2] = steps - 1
                        /\ prev_df # None
                        /\ prev_df[1] \in interpolate_df(year_dfs[labels[i - 1][1]],
                                                         year_dfs[labels[i - 1][1] + 1],
                                                         steps - 1, steps)
            /\ i = 1 => prev_df = None
        /\ (labels[i][2] = steps - 1 /\ i < Len(labels)) =>
            \/ labels[i + 1] = <<end, Real>>
            \/ labels[i + 1][2] = 0 /\ labels[i + 1][1] > labels[i][1]
        /\ (labels[i] = <<end - 1, steps - 1>> /\ pc = "done") =>
            /\ i + 1 = Len(labels)
            /\ labels[i + 1] = <<end, Real>>

\* the run ended after two pairs: the step 0 of the second pair came right
\* after the last step of the first, and the real frame of end closed the run
C11_Witness ==
    /\ pc = "done"
    /\ Len(labels) = 2 * steps + 1
    /\ labels[steps] = <<START_YEAR, steps - 1>>
    /\ labels[steps + 1] = <<START_YEAR + 1, 0>>
    /\ labels[Len(labels)] = <<end, Real>>
    /\ prev_df # Some(emitted[1].df_year)

\* the pair loop is at a pair (y, y + 1) of which a snapshot is missing
AtMissingPair ==
    /\ pc = "pairs"
    /\ y \notin DOMAIN year_dfs \/ (y + 1) \notin DOMAIN year_dfs

RealLabels == SelectSeq(labels, LAMBDA l : l[2] = Real)

C13_WitnessFloor ==
    /\ pc = "done"
    /\ found = "floor"
    /\ end \notin DOMAIN year_dfs
    /\ labels = <<>>

\* C14: the frames of a run have the indices 0, 1, 2, ... in the order they
\* are emitted: each frame is emitted with the number of frames before it.
C14_FrameIndices ==
    /\ emitted # None =>
        /\ labels # <<>>
        /\ emitted[1].idx = Len(labels) - 1
        /\ emitted[1].label = labels[Len(labels)]
    /\ emitted = None => labels = <<>>
    /\ frame_idx = Len(labels) - Len(RealLabels)

\* frames after a skipped pair, and the real frame after them: the indices
\* went on from 0 to steps
C14_Witness ==
    /\ pc = "done"
    /\ START_YEAR \notin DOMAIN year_dfs
    /\ Len(labels) = steps + 1
    /\ labels[Len(labels)] = <<end, Real>>
    /\ emitted[1].idx = steps
    /\ frame_idx = steps

\* the run was ended by an exception that left fetch_year_df at the query of
\* the code of index fidx (the RuntimeError of main_race is raised before
\* any fetch of the run, at fidx = 0)
RaisedInFetch == pc = "raised" /\ fidx \in 1..NumCodes

\* C15: a failure at one code only leaves that code out: fetch_year_df never
\* raises, and having gone through every code it returns the rows of the
\* codes that yielded a value, the empty frame when none did.
C15_FetchNeverRaises ==
    /\ ~RaisedInFetch
    /\ fpc = "ret" => (df = <<>> <=> lastGet.empty)

C16_WitnessFrames ==
    /\ pc = "start"
    /\ aborted.pc = "pairs"
    /\ DOMAIN cache # {}

\* C17: sorting and ranking a frame that is sorted and ranked already gives
\* every code the rank it had.
C17_RankIdempotent ==
    ppc = "reranked" => \A c \in Ids(rk0) : RankIn(rr0, c) = RankIn(rk0, c)

\* code c comes before code d in some_country_codes, the order of retrieval
Before(c, d) ==
    \E i, j \in 1..Len(some_country_codes) :
        i < j /\ some_country_codes[i] = c /\ some_country_codes[j] = d

\* of two rows of equal life the one retrieved first has the smaller rank
TiesInRetrievalOrder(frame) ==
    \A i, j \in 1..Len(frame) :
        (frame[i].life = frame[j].life /\ Before(frame[i].iso3, frame[j].iso3)) =>
            frame[i].rank < frame[j].rank

\* C18: codes of equal life are ranked in their order of retrieval, in the
\* ranked real frames and in the interpolated ones.
C18_StableTies ==
    /\ ppc # "raw" => TiesInRetrievalOrder(rk0) /\ TiesInRetrievalOrder(rk1)
    /\ ppc \in {"interpolated", "rendered"} => TiesInRetrievalOrder(res_t)

\* every year of START_YEAR .. end has a snapshot
AllYearsPresent == START_YEAR <= end /\ \A year \in START_YEAR..end : year \in DOMAIN year_dfs

\* C19: a run over n consecutive years that all have a snapshot emits exactly
\* steps * (n - 1) + 1 frames: for each pair in order the steps 0 .. steps - 1
\* (t = 0/steps .. (steps - 1)/steps), and as the last frame the real frame
\* of the last year.
C19_FrameCount ==
    (pc = "done" /\ AllYearsPresent) =>
        LET n == end - START_YEAR + 1 IN
        /\ Len(labels) = steps * (n - 1) + 1
        /\ \A k \in 1..(steps * (n - 1)) :
            labels[k] = <<START_YEAR + ((k - 1) \div steps), (k - 1) % steps>>
        /\ labels[Len(labels)] = <<end, Real>>
        /\ emitted[1].df_year = year_dfs[end]

\* two years: the steps of the one pair from t = 0 on, then the real frame of
\* the second year
C19_Witness ==
    /\ pc = "done"
    /\ AllYearsPresent
    /\ end = START_YEAR + 1
    /\ labels = [k \in 1..(steps + 1) |->
                    IF k <= steps THEN <<START_YEAR, k - 1>> ELSE <<end, Real>>]

\* three years, 2 * steps + 1 frames
C19_WitnessThree ==
    /\ pc = "done"
    /\ AllYearsPresent
    /\ end = START_YEAR + 2
    /\ Len(labels) = 2 * steps + 1

\* a code is in two rows of the frame
HasDuplicate(frame) ==
    \E i, j \in 1..Len(frame) : i # j /\ frame[i].iso3 = frame[j].iso3

\* C20: a snapshot that holds one code twice, which ranking gives two ranks,
\* is refused: it is not ranked without an error and no frame is rendered
\* from it.
C20_DuplicateIsFatal ==
    HasDuplicate(raw0) =>
        /\ ppc # "rendered"
        /\ ~\E i, j \in 1..Len(rk0) : rk0[i].iso3 = rk0[j].iso3 /\ rk0[i].rank # rk0[j].rank

\* frame is what a finished fetch of year returns and saves: rows of
\* iso3, life, continent as the source gave them, in the order of the codes
FetchedFrame(year, frame) ==
    /\ frame # <<>>
    /\ \A i \in 1..Len(frame) :
        /\ frame[i].iso3 \in Codes
        /\ frame[i] = Row(frame[i].iso3, SourceLife(year, frame[i].iso3),
                          CONTINENT_MAP(frame[i].iso3))
    /\ \A i, j \in 1..Len(frame) : i < j => Before(frame[i].iso3, frame[j].iso3)

\* C21: while the run is in the loop of the pairs or at the last frame no
\* step changes the cache, so the cached years and files are after the frames
\* what they were before; the step that emits a frame leaves the cache as it
\* is, and no frame of interpolate_df is ever a cached file.
C21_FramesKeepCache ==
    [][/\ pc \in {"pairs", "last"} => cache' = cache
       /\ labels' # labels => cache' = cache
       /\ \A year \in DOMAIN cache' : FetchedFrame(year, cache'[year])]_vars

\* the run is done after the frames of two pairs and the last frame, and the
\* cache holds the three years as they were fetched
C21_Witness ==
    /\ pc = "done"
    /\ Len(labels) = 2 * steps + 1
    /\ prev_df # None
    /\ DOMAIN cache = START_YEAR..end
    /\ \A year \in DOMAIN cache : FetchedFrame(year, cache[year])

\* frame is a ranking of the cached file of year
RankedFrameOf(year, frame) ==
    /\ year \in DOMAIN cache
    /\ cache[year] # <<>>
    /\ frame \in SortedRanked(cache[year])

\* C22: every frame is rendered from a non-empty ranked frame of the last
\* year, or from interpolate_df of the non-empty ranked frames of two years,
\* and has rows; a year whose fetch was empty has no entry in year_dfs, and
\* no frame has it as its year or as the second year of its pair.
C22_NoFrameFromEmpty ==
    /\ \A year \in DOMAIN year_dfs : RankedFrameOf(year, year_dfs[year])
    /\ emitted # None =>
        LET e == emitted[1] IN
        /\ e.df_year # <<>>
        /\ IF e.label[2] = Real
           THEN /\ e.label[1] \in DOMAIN year_dfs
                /\ e.df_year = year_dfs[e.label[1]]
           ELSE /\ e.label[1] \in DOMAIN year_dfs
                /\ (e.label[1] + 1) \in DOMAIN year_dfs
                /\ e.df_year \in interpolate_df(year_dfs[e.label[1]],
                                                year_dfs[e.label[1] + 1], e.label[2], steps)
    /\ \A i \in 1..Len(labels) :
        /\ labels[i][1] \in DOMAIN year_dfs
        /\ labels[i][2] # Real => (labels[i][1] + 1) \in DOMAIN year_dfs

\* the fetch of the first year was empty: the run is done with the frames of
\* the second pair and the last frame only
C22_Witness ==
    /\ pc = "done"
    /\ update_cache
    /\ START_YEAR \notin DOMAIN cache
    /\ START_YEAR \notin DOMAIN year_dfs
    /\ labels # <<>>
    /\ \A i \in 1..Len(labels) : labels[i][1] > START_YEAR

\* how many calls of fetch_year_df the resolver has made, the running one included
ProbeCalls == Len(probes) + (IF pc = "resolve" THEN 1 ELSE 0)

\* the resolver's calls so far are at most MAX_BACK, every probed year and the
\* year of the running call is within candidate - MAX_BACK .. candidate, the
\* loop of a call goes over the codes once, and after MAX_BACK calls the
\* resolver has returned
ProbesBounded ==
    /\ ProbeCalls <= MAX_BACK
    /\ \A i \in 1..Len(probes) :
        probes[i][1] <= candidate /\ probes[i][1] >= candidate - MAX_BACK
    /\ pc = "resolve" =>
        /\ y <= candidate /\ y >= candidate - MAX_BACK
        /\ found = "pending"
        /\ fpc = "query" => fyear = y /\ fidx <= NumCodes + 1
    /\ Len(probes) = MAX_BACK => pc # "resolve"

\* C23: find_latest_available_year ends, whatever the cache and the source
\* hold, after at most MAX_BACK calls of fetch_year_df, and probes no year
\* above candidate or below candidate - MAX_BACK.
C23_ResolverTerminates ==
    /\ []ProbesBounded
    /\ (pc = "resolve") ~> (pc # "resolve")

\* every year of the window was probed and was empty, nothing is cached, and
\* the resolver has returned
C23_Witness ==
    /\ pc = "ensure"
    /\ found = "floor"
    /\ probes = [i \in 1..MAX_BACK |-> <<candidate - (i - 1), FALSE>>]
    /\ DOMAIN cache = {}

\* a step that calls render_frame
FrameStep == emitted' # emitted /\ emitted' # None

\* C24: every call of render_frame gets as df_prev the frame of the call
\* before it, none at the first call of the run, and that is what prev_df
\* holds; prev_df changes only in a step that renders a frame, to that
\* frame, or when a new run starts, to none.
C24_PrevIsPredecessor ==
    [][/\ FrameStep =>
            /\ emitted'[1].df_prev =
                    (IF emitted = None THEN None ELSE Some(emitted[1].df_year))
            /\ emitted'[1].df_prev = prev_df
            /\ labels' = Append(labels, emitted'[1].label)
       /\ prev_df' # prev_df =>
            \/ FrameStep /\ prev_df' = Some(emitted'[1].df_year)
            \/ pc' = "start" /\ prev_df' = None]_vars

\* the last frame of a run of two pairs: it got the frame of the last step of
\* the second pair as df_prev
C24_Witness ==
    /\ pc = "done"
    /\ emitted # None
    /\ emitted[1].idx = 2 * steps
    /\ emitted[1].df_prev # None
    /\ emitted[1].df_prev[1] \in interpolate_df(year_dfs[end - 1], year_dfs[end],
                                                 steps - 1, steps)

\* C25: a run with update_cache false never queries the source: no fetch of it
\* gets past the cached file, and the year of every call it makes is cached.
C25_CachedOnlyNoQuery ==
    (pc \in {"load", "pairs", "last", "done", "raised"} /\ ~update_cache) =>
        /\ fpc # "query"
        /\ fpc = "ret" => (lastGet.had /\ ~lastGet.fetched)
        /\ ~RaisedInFetch

\* C26 as stated: the frame of t = 0 is the ranked frame of the first year:
\* the same codes, lives and ranks, whatever codes the second year has.
C26_StepZeroIsReal ==
    (ppc \in {"interpolated", "rendered"} /\ t_num = 0) =>
        /\ Ids(res_t) = Ids(rk0)
        /\ \A c \in Ids(rk0) :
            /\ RowOf(res_t, c).life = RowOf(rk0, c).life * steps
            /\ RankIn(res_t, c) = RankIn(rk0, c)

\* C26 amended: the frame of t = 0 has the codes of both years: a code of the
\* first year with its life of the first year, a code of the second year
\* only with its life of the second year, ranked from 1 on by descending
\* life.  Two codes of the first year with different lives are in the order
\* they have in the first year's ranked frame; when the second year has no
\* code the first has not and no two lives are equal, the codes, lives and
\* ranks are those of the first year's ranked frame.
C26_StepZeroUnion ==
    (ppc \in {"interpolated", "rendered"} /\ t_num = 0) =>
        /\ DenseDescending(res_t, Ids(rk0) \cup Ids(rk1))
        /\ \A c \in Ids(rk0) : RowOf(res_t, c).life = RowOf(rk0, c).life * steps
        /\ \A c \in Ids(rk1) \ Ids(rk0) : RowOf(res_t, c).life = RowOf(rk1, c).life * steps
        /\ \A c, d \in Ids(rk0) :
            RowOf(rk0, c).life > RowOf(rk0, d).life =>
                /\ RankIn(rk0, c) < RankIn(rk0, d)
                /\ RankIn(res_t, c) < RankIn(res_t, d)
        /\ (/\ Ids(rk1) \subseteq Ids(rk0)
            /\ \A c, d \in Ids(rk0) : c # d => RowOf(rk0, c).life # RowOf(rk0, d).life) =>
                /\ Ids(res_t) = Ids(rk0)
                /\ \A c \in Ids(rk0) : RankIn(res_t, c) = RankIn(rk0, c)

\* at t = 0 a code of the second year only is in the frame, above a code of
\* the first year, whose rank is no more the one of the first year's frame
C26_Witness ==
    /\ ppc = "interpolated"
    /\ t_num = 0
    /\ \E c \in Ids(rk1) \ Ids(rk0) : \E d \in Ids(rk0) :
        /\ c \in Ids(res_t)
        /\ RankIn(res_t, c) < RankIn(res_t, d)
        /\ RankIn(res_t, d) # RankIn(rk0, d)

\* a step in which a call of fetch_year_df returns
GetReturns == fpc # "ret" /\ fpc' = "ret"

\* C27: a cached file, once written, is never written again, changed or
\* removed, by no step of any run; and every call of fetch_year_df for a
\* cached year returns the cached file, without a query.
C27_WriteOnce ==
    [][/\ \A year \in DOMAIN cache :
            /\ year \in DOMAIN cache'
            /\ cache'[year] = cache[year]
            /\ cache'[year] # <<>>
       /\ (GetReturns /\ y \in DOMAIN cache) =>
            /\ df' = cache[y]
            /\ lastGet'.year = y /\ lastGet'.had /\ ~lastGet'.fetched
            /\ fpc = "idle"]_vars

\* a run after an ended one: the loader's call for a year gets the file that
\* an earlier run cached
C27_Witness ==
    /\ pc = "load"
    /\ ~update_cache
    /\ fpc = "ret"
    /\ lastGet.year = y /\ lastGet.had /\ ~lastGet.fetched
    /\ df = cache[y]

\* C28: a fetch that ends with rows of some codes and none of others caches
\* what it has, and no code is ever queried for a year that is cached: the
\* cached frame of the year stays without the codes that failed.
C28_PartialIsKept ==
    [][/\ (fpc = "query" /\ fpc' = "ret") =>
            /\ fidx > NumCodes
            /\ rows # <<>> => (fyear \in DOMAIN cache' /\ cache'[fyear] = rows)
       /\ fpc' = "query" => fyear' \notin DOMAIN cache'
       /\ \A year \in DOMAIN cache : \A c \in Codes :
            c \notin Ids(cache[year]) => c \notin Ids(cache'[year])]_vars

\* a cached frame that lacks a code was returned by a later call, unqueried
C28_Witness ==
    /\ fpc = "ret"
    /\ lastGet.had /\ ~lastGet.fetched
    /\ lastGet.year \in DOMAIN cache
    /\ Len(cache[lastGet.year]) < NumCodes
    /\ df = cache[lastGet.year]

\* the time year + t of a frame, times steps: t = s / steps, and t = 0 for
\* the real frame of the last year
Coordinate(label) == label[1] * steps + (IF label[2] = Real THEN 0 ELSE label[2])

\* C29: the times year + t of the frames of a run grow strictly in the order
\* the frames are emitted, whatever years are missing.
C29_CoordinatesIncrease ==
    \A i, j \in 1..Len(labels) : i < j => Coordinate(labels[i]) < Coordinate(labels[j])

\* the frames of the second pair and of the last year, after a skipped first
\* pair: steps + 1 growing times
C29_Witness ==
    /\ pc = "done"
    /\ labels = [k \in 1..(steps + 1) |->
                    IF k <= steps THEN <<START_YEAR + 1, k - 1>> ELSE <<START_YEAR + 2, Real>>]
    /\ Coordinate(labels[1]) = (START_YEAR + 1) * steps
    /\ Coordinate(labels[steps + 1]) = (START_YEAR + 2) * steps

\* year has a frame in year_dfs, is not the last year, and the year after it has none
LonelyYear(year) ==
    /\ year \in DOMAIN year_dfs
    /\ year < end
    /\ (year + 1) \notin DOMAIN year_dfs

====
